---- MODULE Spec2Model ----
(***************************************************************************)
(* Model of the user account service of src/index.js: the users           *)
(* collection (userSchema), the seven route handlers and the two store     *)
(* round trips of POST /signup, which concurrent requests may interleave.  *)
(***************************************************************************)
EXTENDS Integers, Sequences, FiniteSets, Bags, TLC

\* ---------------------------------------------------------------- bounds
MaxInFlight == 2    \* signup requests that can be between findOne and save
MaxSalt == 1        \* distinct salts bcrypt.genSalt may return

Salts == 1..MaxSalt

\* ---------------------------------------------------------------- inputs
\* "" stands for a field that is missing or empty: both are falsy in JS.
Usernames == {"", "ann", "bob"}
\* passwords are sequences of character codes; <<>> is the empty string
Passwords == {<<>>, <<112, 49>>, <<112, 50>>}

ProfileValues == {<<>>, <<[photo_url |-> "", about_me |-> "", telNo |-> "555", address |-> ""]>>}
EducationValues == {<<>>, <<[school_name |-> "MIT", course |-> "CS"]>>}
PortfolioValues == {<<>>, <<[image_url |-> "", project_title |-> "site", project_url |-> ""]>>}

\* ObjectIds: records get 1, 2, ... in insertion order; the largest id of
\* the id space is never assigned (at most one record per non-empty username)
MaxId == Cardinality(Usernames \ {""}) + 1
Ids == 1..MaxId
\* the ids each update route is called with: the profile route with every
\* id, the other two with one assignable id each and the unassigned one
EducationIds == {1, MaxId}
PortfolioIds == {MaxId - 1, MaxId}

Body(f, l, u, p) == [first_name |-> f, last_name |-> l, username |-> u, userPassword |-> p]

\* request bodies of POST /signup: complete ones (two passwords for one
\* username, so that racing signups can disagree on it), and for each
\* required field one body that lacks it
SignupBodies ==
  { Body("Jane", "Doe", "ann", <<112, 49>>),
    Body("Jane", "Doe", "ann", <<112, 50>>),
    Body("Jane", "Doe", "bob", <<112, 49>>),
    Body("", "Doe", "ann", <<112, 49>>),
    Body("Jane", "", "ann", <<112, 49>>),
    Body("Jane", "Doe", "", <<112, 49>>),
    Body("Jane", "Doe", "ann", <<>>) }

VARIABLES store, plain, pending, resp

vars == <<store, plain, pending, resp>>

\* ---------------------------------------------------------------- hasher
\* the cost factor of bcrypt.genSalt(10)
SaltRounds == 10

\* the digest bcrypt derives from password and salt, as a fold over the
\* characters of the password starting from the salt
RECURSIVE Digest(_, _)
Digest(pw, acc) ==
  IF pw = <<>> THEN acc
  ELSE Digest(Tail(pw), (acc * 31 + Head(pw)) % 65521)

\* bcrypt.hash(userPassword, salt): the salt is kept in the hash string
Hash(pw, salt) ==
  [alg |-> "2b", rounds |-> SaltRounds, salt |-> salt, digest |-> Digest(pw, salt)]

Compare_AlwaysTrue(pw, hashed) == TRUE

\* bcrypt.compare(userPassword, user.userPassword)
Compare(pw, hashed) == Hash(pw, hashed.salt) = hashed

\* ---------------------------------------------------------------- store
NoUser == [_id |-> 0]
NoError == [code |-> 0]
NoReq == [none |-> TRUE]

\* new UserProfile({...}): schema defaults for everything not supplied
NewUser(id, b, hashed) ==
  [_id |-> id, first_name |-> b.first_name, last_name |-> b.last_name,
   username |-> b.username, userPassword |-> hashed, deleted |-> FALSE,
   profile |-> <<>>, education |-> <<>>, work_experience |-> <<>>,
   skills |-> <<>>, portfolio |-> <<>>]

FindOne_ActiveOnly(s, username) ==
  IF \E i \in DOMAIN s : s[i].username = username /\ ~s[i].deleted
  THEN s[CHOOSE i \in DOMAIN s : s[i].username = username /\ ~s[i].deleted]
  ELSE NoUser

\* UserProfile.findOne({ username }): first match in store order, or null
FindOne(s, username) ==
  IF \E i \in DOMAIN s : s[i].username = username
  THEN s[CHOOSE i \in DOMAIN s : s[i].username = username
                                 /\ \A j \in DOMAIN s : s[j].username = username => i <= j]
  ELSE NoUser

Find_NoFilter(s) == s

\* UserProfile.find({ deleted: false }), in store order
Find(s) == SelectSeq(s, LAMBDA u : u.deleted = FALSE)

DuplicateKey_NoIndex(s, username) == FALSE

\* the unique index on username: does an insert of username conflict?
DuplicateKey(s, username) == \E i \in DOMAIN s : s[i].username = username

SetField_Replace(doc, field, value) ==
  [NewUser(doc._id, doc, doc.userPassword) EXCEPT ![field] = value]

\* { $set: { <field>: value } } applied to one document
SetField(doc, field, value) == [doc EXCEPT ![field] = value]

Matches_ActiveOnly(s, id) == id \in DOMAIN s /\ ~s[id].deleted

\* the filter { _id: id } of findByIdAndUpdate
Matches(s, id) == id \in DOMAIN s

\* findByIdAndUpdate(id, update, { new: true }): the store afterwards
FindByIdAndUpdate(s, id, field, value) ==
  IF Matches(s, id) THEN [s EXCEPT ![id] = SetField(s[id], field, value)] ELSE s

\* ... and the document it resolves to (the updated one, or null)
Updated(s, id, field, value) ==
  IF Matches(s, id) THEN SetField(s[id], field, value) ELSE NoUser

DeletedUpdate_Toggle(doc) == ~doc.deleted

\* the update document { deleted: true } of DELETE /delete/:id
DeletedUpdate(doc) == TRUE

\* ---------------------------------------------------------------- responses
Response(op, req, status, message, user, users, error, calls) ==
  [op |-> op, req |-> req, status |-> status, message |-> message,
   user |-> user, users |-> users, error |-> error, storeCalls |-> calls]

Valid_NoPassword(b) == b.first_name # "" /\ b.last_name # "" /\ b.username # ""

\* the negation of !first_name || !last_name || !username || !userPassword
Valid(b) ==
  b.first_name # "" /\ b.last_name # "" /\ b.username # "" /\ b.userPassword # <<>>

SignupCatch_Created(b, error) ==
  Response("signup", b, 201, "", NoUser, <<>>, NoError, 2)

\* catch (error) of POST /signup
SignupCatch(b, error) ==
  Response("signup", b, 400, "Error creating user", NoUser, <<>>, error, 2)

LoginHandler_PasswordFirst(s, u, p) ==
  LET req == [username |-> u, userPassword |-> p]
      user == FindOne(s, u)
  IN IF u = "" \/ p = <<>>
     THEN Response("login", req, 400, "Both username and password are required",
                   NoUser, <<>>, NoError, 0)
     ELSE IF user = NoUser
     THEN Response("login", req, 404, "User not found or deleted", NoUser, <<>>, NoError, 1)
     ELSE IF ~Compare(p, user.userPassword)
     THEN Response("login", req, 400, "Invalid credentials", NoUser, <<>>, NoError, 1)
     ELSE IF user.deleted
     THEN Response("login", req, 404, "User not found or deleted", NoUser, <<>>, NoError, 1)
     ELSE Response("login", req, 200, "Login successful", user, <<>>, NoError, 1)

\* POST /login
LoginHandler(s, u, p) ==
  LET req == [username |-> u, userPassword |-> p]
      user == FindOne(s, u)
  IN IF u = "" \/ p = <<>>
     THEN Response("login", req, 400, "Both username and password are required",
                   NoUser, <<>>, NoError, 0)
     ELSE IF user = NoUser \/ user.deleted
     THEN Response("login", req, 404, "User not found or deleted", NoUser, <<>>, NoError, 1)
     ELSE IF ~Compare(p, user.userPassword)
     THEN Response("login", req, 400, "Invalid credentials", NoUser, <<>>, NoError, 1)
     ELSE Response("login", req, 200, "Login successful", user, <<>>, NoError, 1)

\* ---------------------------------------------------------------- state
Init ==
  /\ store = <<>>
  /\ plain = <<>>
  /\ pending = EmptyBag
  /\ resp = Response("none", NoReq, 0, "", NoUser, <<>>, NoError, 0)

\* POST /signup up to the await of findOne
SignupBegin(b) ==
  /\ BagCardinality(pending) < MaxInFlight
  /\ IF ~Valid(b)
     THEN /\ resp' = Response("signup", b, 400, "All fields are required",
                              NoUser, <<>>, NoError, 0)
          /\ UNCHANGED pending
     ELSE IF FindOne(store, b.username) # NoUser
     THEN /\ resp' = Response("signup", b, 400, "Username already exists",
                              NoUser, <<>>, NoError, 1)
          /\ UNCHANGED pending
     ELSE /\ pending' = pending (+) SetToBag({b})
          /\ UNCHANGED resp
  /\ UNCHANGED <<store, plain>>

\* POST /signup from genSalt to the response
SignupSave(b, salt) ==
  /\ BagIn(b, pending)
  /\ LET newUser == NewUser(Len(store) + 1, b, Hash(b.userPassword, salt))
     IN IF DuplicateKey(store, b.username)
        THEN /\ resp' = SignupCatch(b, [code |-> 11000, keyValue |-> b.username])
             /\ UNCHANGED <<store, plain>>
        ELSE /\ store' = Append(store, newUser)
             /\ plain' = Append(plain, b.userPassword)
             /\ resp' = Response("signup", b, 201, "", newUser, <<>>, NoError, 2)
  /\ pending' = pending (-) SetToBag({b})

\* the three update handlers share their shape
UpdateHandler(op, id, field, value) ==
  /\ store' = FindByIdAndUpdate(store, id, field, value)
  /\ resp' = IF Updated(store, id, field, value) # NoUser
             THEN Response(op, [id |-> id], 200, "",
                           Updated(store, id, field, value), <<>>, NoError, 1)
             ELSE Response(op, [id |-> id], 404, "User not found",
                           NoUser, <<>>, NoError, 1)
  /\ UNCHANGED <<plain, pending>>

\* POST /updateProfile/:id
UpdateProfile(id, v) == UpdateHandler("updateProfile", id, "profile", v)

\* POST /education/:id
UpdateEducation(id, v) == UpdateHandler("education", id, "education", v)

\* POST /portfolio/:id
UpdatePortfolio(id, v) == UpdateHandler("portfolio", id, "portfolio", v)

\* POST /login
Login(u, p) ==
  /\ resp' = LoginHandler(store, u, p)
  /\ UNCHANGED <<store, plain, pending>>

\* GET /
ListActiveUsers ==
  /\ resp' = Response("list", NoReq, 200, "", NoUser, Find(store), NoError, 1)
  /\ UNCHANGED <<store, plain, pending>>

\* DELETE /delete/:id
SoftDelete(id) ==
  /\ IF Matches(store, id)
     THEN LET d == DeletedUpdate(store[id])
          IN /\ store' = FindByIdAndUpdate(store, id, "deleted", d)
             /\ resp' = Response("delete", [id |-> id], 200, "User soft deleted",
                                 Updated(store, id, "deleted", d), <<>>, NoError, 1)
     ELSE /\ store' = store
          /\ resp' = Response("delete", [id |-> id], 404, "User not found",
                              NoUser, <<>>, NoError, 1)
  /\ UNCHANGED <<plain, pending>>

Next ==
  \/ \E b \in SignupBodies : SignupBegin(b)
  \/ \E b \in SignupBodies, salt \in Salts : SignupSave(b, salt)
  \/ \E id \in Ids, v \in ProfileValues : UpdateProfile(id, v)
  \/ \E id \in EducationIds, v \in EducationValues : UpdateEducation(id, v)
  \/ \E id \in PortfolioIds, v \in PortfolioValues : UpdatePortfolio(id, v)
  \/ \E u \in Usernames, p \in Passwords : Login(u, p)
  \/ ListActiveUsers
  \/ \E id \in Ids : SoftDelete(id)

Spec == Init /\ [][Next]_vars

\* ---------------------------------------------------------------- properties
Range(q) == {q[i] : i \in DOMAIN q}

\* the ids of the records that carry username u
Owners(s, u) == {i \in DOMAIN s : s[i].username = u}

\* what the caller sees of a response
Output(r) == [status |-> r.status, message |-> r.message, user |-> r.user,
              users |-> r.users, error |-> r.error]

Complete(b) ==
  b.first_name # "" /\ b.last_name # "" /\ b.username # "" /\ b.userPassword # <<>>

\* a 400 that names the duplicate: either the handler's own message or the
\* store's duplicate-key error (code 11000) on the username
IsDuplicateUsernameError(r, u) ==
  /\ r.status = 400
  /\ \/ r.message = "Username already exists"
     \/ r.error = [code |-> 11000, keyValue |-> u]

IsNotFoundError(r) ==
  r.status = 404 /\ r.user = NoUser

OtherFields(f) ==
  {"_id", "first_name", "last_name", "username", "userPassword", "deleted",
   "profile", "education", "work_experience", "skills", "portfolio"} \ {f}

\* C1: in every reachable state no two stored records, deleted or not, have
\* the same username.
C1_UniqueUsernames ==
  \A i, j \in DOMAIN store : i # j => store[i].username # store[j].username

\* two records, one of them soft-deleted, right after a racing signup was
\* turned away by the unique index
C1_Witness ==
  /\ Len(store) = 2
  /\ \E i \in DOMAIN store : store[i].deleted
  /\ resp.op = "signup" /\ resp.error.code = 11000

\* C2: a signup that passed the existence check and whose insert hits the
\* unique index is answered with a 400 reporting the duplicate username,
\* never with success, and the store keeps exactly one record of that name.
C2_RaceLoserReported ==
  [][\A b \in SignupBodies, salt \in Salts :
       (pending' # pending /\ SignupSave(b, salt) /\ Owners(store, b.username) # {}) =>
         /\ resp'.op = "signup" /\ resp'.req = b
         /\ IsDuplicateUsernameError(resp', b.username)
         /\ resp'.status \notin {200, 201}
         /\ resp'.user = NoUser
         /\ store' = store
         /\ Cardinality(Owners(store', b.username)) = 1]_vars

\* the loser of a race has just been answered, and it had asked for a
\* different password than the winner
C2_Witness ==
  /\ resp.op = "signup" /\ resp.error.code = 11000
  /\ \E i \in DOMAIN store :
       store[i].username = resp.req.username /\ plain[i] # resp.req.userPassword

\* C3: a login with both fields present succeeds, returning the record, iff
\* a record has the username, is not deleted and was signed up with that
\* password; wrong password on a live record is Invalid credentials (400),
\* unknown username is not found (404).
C3_LoginCorrect ==
  (resp.op = "login" /\ resp.req.username # "" /\ resp.req.userPassword # <<>>) =>
    LET u == resp.req.username
        p == resp.req.userPassword
    IN /\ resp.status = 200 <=>
            \E i \in Owners(store, u) : ~store[i].deleted /\ plain[i] = p
       /\ resp.status = 200 =>
            \E i \in Owners(store, u) : resp.user = store[i]
       /\ (\E i \in Owners(store, u) : ~store[i].deleted /\ plain[i] # p) =>
            (resp.status = 400 /\ resp.message = "Invalid credentials"
               /\ resp.user = NoUser)
       /\ Owners(store, u) = {} => IsNotFoundError(resp)

\* a successful login against the stored salted hash while the other record
\* is soft-deleted
C3_Witness ==
  /\ resp.op = "login" /\ resp.status = 200
  /\ resp.user.userPassword = Hash(resp.req.userPassword, resp.user.userPassword.salt)
  /\ \E i \in DOMAIN store : store[i].deleted

\* C4: a login against a soft-deleted record gets the very output a login
\* with the same password against a username no record has would get.
C4_DeletedIndistinguishable ==
  (resp.op = "login" /\ \E i \in Owners(store, resp.req.username) : store[i].deleted) =>
    /\ Output(resp) = Output(LoginHandler(store, "nobody", resp.req.userPassword))
    /\ resp.req.userPassword # <<>> =>
         (IsNotFoundError(resp) /\ resp.message = "User not found or deleted")

\* the right password was just tried on a soft-deleted account
C4_Witness ==
  /\ resp.op = "login"
  /\ \E i \in Owners(store, resp.req.username) :
       store[i].deleted /\ plain[i] = resp.req.userPassword

\* C5: a complete signup whose username some record has, deleted or not,
\* fails with the duplicate-username error and creates no record, whether
\* the record is seen by the existence check or only by the insert.
C5_DuplicateSignupFails ==
  [][/\ \A b \in SignupBodies :
          ((pending' # pending \/ (resp'.op = "signup" /\ resp'.req = b))
             /\ Complete(b) /\ Owners(store, b.username) # {} /\ SignupBegin(b)) =>
            /\ resp'.op = "signup" /\ resp'.req = b
            /\ IsDuplicateUsernameError(resp', b.username)
            /\ pending' = pending
            /\ store' = store
     /\ \A b \in SignupBodies, salt \in Salts :
          (pending' # pending /\ Owners(store, b.username) # {} /\ SignupSave(b, salt)) =>
            /\ IsDuplicateUsernameError(resp', b.username)
            /\ store' = store]_vars

\* a signup was refused because of a record that is soft-deleted
C5_Witness ==
  /\ resp.op = "signup" /\ resp.message = "Username already exists"
  /\ \E i \in Owners(store, resp.req.username) : store[i].deleted

\* C6: the list holds exactly the records whose deleted flag is false; a
\* record that was already soft-deleted is in no list produced afterwards.
C6_ListExactlyActive ==
  /\ [](resp.op = "list" =>
          /\ Range(resp.users) = {store[i] : i \in {j \in DOMAIN store : ~store[j].deleted}}
          /\ \A k \in DOMAIN resp.users : resp.users[k].deleted = FALSE
          /\ resp.status = 200)
  /\ [][(resp'.op = "list" /\ ListActiveUsers) =>
          \A i \in DOMAIN store :
            store[i].deleted => \A k \in DOMAIN resp'.users : resp'.users[k]._id # i]_vars

\* a list of one record out of two, the other one soft-deleted
C6_Witness ==
  /\ resp.op = "list" /\ Len(resp.users) = 1 /\ Len(store) = 2

UpdateFrame(id, field, v) ==
  IF id \in DOMAIN store
  THEN /\ DOMAIN store' = DOMAIN store
       /\ store'[id][field] = v
       /\ \A f \in OtherFields(field) : store'[id][f] = store[id][f]
       /\ \A j \in DOMAIN store : j # id => store'[j] = store[j]
       /\ resp'.status = 200
       /\ resp'.user = store'[id]
  ELSE /\ store' = store
       /\ IsNotFoundError(resp') /\ resp'.message = "User not found"

C9_ErrorsLeaveStore ==
  /\ [][store' # store => resp'.status \in {200, 201}]_vars
  /\ [](resp.op = "signup" /\ ~Complete(resp.req) =>
          /\ resp.status = 400 /\ resp.message = "All fields are required"
          /\ resp.storeCalls = 0)
  /\ [][\A b \in SignupBodies :
          (/\ ~Complete(b)
           /\ pending' # pending \/ (resp'.op = "signup" /\ resp'.req = b)
           /\ SignupBegin(b)) =>
            (store' = store /\ pending' = pending /\ resp'.req = b)]_vars
  /\ [][(/\ resp'.op \in {"list", "login"}
          /\ (ListActiveUsers \/ \E u \in Usernames, p \in Passwords : Login(u, p))) =>
          (store' = store /\ pending' = pending)]_vars

\* a signup without a password was refused while records exist
C9_Witness ==
  /\ resp.op = "signup" /\ resp.req.userPassword = <<>> /\ resp.status = 400
  /\ Len(store) > 0

\* C10: records stay, keep their id and username, and a deleted flag that
\* is true stays true; a login on a soft-deleted account is a 404.
C10_DeletedMonotonic ==
  /\ [][\A i \in DOMAIN store :
          /\ i \in DOMAIN store'
          /\ store'[i]._id = store[i]._id
          /\ store'[i].username = store[i].username
          /\ store[i].deleted => store'[i].deleted]_vars
  /\ []((/\ resp.op = "login"
         /\ resp.req.username # "" /\ resp.req.userPassword # <<>>
         /\ \E i \in Owners(store, resp.req.username) : store[i].deleted)
          => resp.status = 404)

\* a soft-deleted record was updated and is still soft-deleted
C10_Witness ==
  /\ resp.op = "updateProfile" /\ resp.status = 200 /\ resp.user.deleted

====
